---- MODULE Spec2Model ----
(***************************************************************************)
(* Model of the pdfs-to-markdown orchestration pipeline:                   *)
(*   src/src/utils.py                        sanitize_filename, discovery, *)
(*                                           the conversion ledger         *)
(*   src/src/pdf_to_markdown/orchestrator.py Orchestrator.run and report   *)
(*   src/src/pdf_to_markdown/model/result.py ConversionResult              *)
(*                                                                         *)
(* Names (folder names, file names, artifact names) are sequences of       *)
(* one-character strings, so that sanitization and glob matching are       *)
(* computed character by character as the code computes them.              *)
(***************************************************************************)
EXTENDS Integers, Sequences, FiniteSets, TLC

(***************************************************************************)
(* Bounds of the model.                                                    *)
(***************************************************************************)
\* most supported files in the whole input tree
MaxTreeFiles == 3
\* most entries in the output directory before the first run
MaxExports == 2
\* most output I/O faults (mkdir, open, write, close, report) in a behaviour
MaxFaults == 1
\* most Transformation Port failures in a behaviour
MaxPortFailures == 1

None == "None"
\* an absent optional name (Optional[str] = None)
NoneName == <<"None">>

(***************************************************************************)
(* Characters and names.                                                   *)
(***************************************************************************)
Letters == {"a", "b", "c", "d", "e", "f", "g", "h", "i", "l", "m", "n", "o",
            "p", "r", "s", "t", "u", "x", "y", "D", "M"}
Digits == {"0", "1", "2", "3", "4", "5", "6", "7", "8", "9"}
\* \w of the re module: letters, digits and the underscore
WordChars == Letters \cup Digits \cup {"_"}
\* \s of the re module
SpaceChars == {" "}

\* code points, for the ordering of sorted()
CharCode(c) ==
    CASE c = " " -> 32 [] c = "!" -> 33 [] c = "-" -> 45 [] c = "." -> 46
      [] c = "/" -> 47
      [] c = "0" -> 48 [] c = "1" -> 49 [] c = "2" -> 50 [] c = "3" -> 51
      [] c = "4" -> 52 [] c = "5" -> 53 [] c = "6" -> 54 [] c = "7" -> 55
      [] c = "8" -> 56 [] c = "9" -> 57
      [] c = "D" -> 68 [] c = "M" -> 77
      [] c = "_" -> 95
      [] c = "a" -> 97 [] c = "b" -> 98 [] c = "c" -> 99 [] c = "d" -> 100
      [] c = "e" -> 101 [] c = "f" -> 102 [] c = "g" -> 103 [] c = "h" -> 104
      [] c = "i" -> 105
      [] c = "l" -> 108 [] c = "m" -> 109 [] c = "n" -> 110 [] c = "o" -> 111
      [] c = "p" -> 112 [] c = "r" -> 114 [] c = "s" -> 115 [] c = "t" -> 116
      [] c = "u" -> 117 [] c = "x" -> 120 [] c = "y" -> 121

Range(s) == {s[i] : i \in 1..Len(s)}

StartsWith(s, p) == Len(s) >= Len(p) /\ SubSeq(s, 1, Len(p)) = p
EndsWith(s, p) == Len(s) >= Len(p) /\ SubSeq(s, Len(s) - Len(p) + 1, Len(s)) = p

\* str < str of Python: lexicographic by code point, a proper prefix is smaller
RECURSIVE StrLess(_, _)
StrLess(s, t) ==
    IF t = <<>> THEN FALSE
    ELSE IF s = <<>> THEN TRUE
    ELSE IF CharCode(Head(s)) # CharCode(Head(t))
         THEN CharCode(Head(s)) < CharCode(Head(t))
         ELSE StrLess(Tail(s), Tail(t))

\* sorted() of a set of distinct names
RECURSIVE Sorted(_)
Sorted(S) ==
    IF S = {} THEN <<>>
    ELSE LET least == CHOOSE x \in S : \A y \in S \ {x} : StrLess(x, y)
         IN <<least>> \o Sorted(S \ {least})

(***************************************************************************)
(* sanitize_filename (utils.py 28-50).                                     *)
(***************************************************************************)
\* index of the last occurrence of c in s, 0 when there is none (str.rfind)
RECURSIVE RFind(_, _)
RFind(s, c) ==
    IF s = <<>> THEN 0
    ELSE IF s[Len(s)] = c THEN Len(s)
    ELSE RFind(SubSeq(s, 1, Len(s) - 1), c)

\* str.split(c)
RECURSIVE SplitOn(_, _)
SplitOn(s, c) ==
    IF s = <<>> THEN << <<>> >>
    ELSE LET rest == SplitOn(Tail(s), c)
         IN IF Head(s) = c THEN << <<>> >> \o rest
            ELSE << <<Head(s)>> \o Head(rest) >> \o Tail(rest)

\* Path(filename).name: the last component of the path, empty and "."
\* components dropped; the empty string when there is none
PathName(filename) ==
    LET parts == SelectSeq(SplitOn(filename, "/"), LAMBDA part : part # <<>> /\ part # <<".">>)
    IN IF parts = <<>> THEN <<>> ELSE parts[Len(parts)]

\* the stem of a path's name: the name without its last suffix; a leading dot
\* or a trailing dot starts no suffix
Stem(name) ==
    LET i == RFind(name, ".")
    IN IF 1 < i /\ i < Len(name) THEN SubSeq(name, 1, i - 1) ELSE name

\* re.sub(r'[^\w\s-]', '_', name)
ReplaceProblematic(s) ==
    [i \in 1..Len(s) |->
        IF s[i] \in WordChars \cup SpaceChars \cup {"-"} THEN s[i] ELSE "_"]

\* re.sub(r'[\s_]+', '_', sanitized)
RECURSIVE CollapseRuns(_)
CollapseRuns(s) ==
    IF s = <<>> THEN <<>>
    ELSE IF Head(s) \in SpaceChars \cup {"_"}
         THEN IF Len(s) > 1 /\ s[2] \in SpaceChars \cup {"_"}
              THEN CollapseRuns(Tail(s))
              ELSE <<"_">> \o CollapseRuns(Tail(s))
         ELSE <<Head(s)>> \o CollapseRuns(Tail(s))

\* the mutant: lstrip('_'), trailing underscores are kept
RECURSIVE StripLeadingUnderscores(_)
StripLeadingUnderscores(s) ==
    IF s = <<>> THEN <<>>
    ELSE IF Head(s) = "_" THEN StripLeadingUnderscores(Tail(s))
    ELSE s

\* str.strip('_')
RECURSIVE StripUnderscores(_)
StripUnderscores(s) ==
    IF s = <<>> THEN <<>>
    ELSE IF Head(s) = "_" THEN StripUnderscores(Tail(s))
    ELSE IF s[Len(s)] = "_" THEN StripUnderscores(SubSeq(s, 1, Len(s) - 1))
    ELSE s

UNTITLED == <<"u", "n", "t", "i", "t", "l", "e", "d">>

\* the mutant: the underscores are stripped before the runs are collapsed
sanitize_filename_strip_first(filename) ==
    LET sanitized == CollapseRuns(StripUnderscores(ReplaceProblematic(Stem(PathName(filename)))))
    IN IF sanitized # <<>> THEN sanitized ELSE UNTITLED

sanitize_filename(filename) ==
    LET sanitized == StripUnderscores(CollapseRuns(ReplaceProblematic(Stem(PathName(filename)))))
    IN IF sanitized # <<>> THEN sanitized ELSE UNTITLED

(***************************************************************************)
(* The input tree and discovery (utils.py 140-194).                        *)
(* A tree is [is_dir: the input root is a directory, rootEntries: the names *)
(* of the files directly in the input root, subdirs: the immediate         *)
(* subdirectories in the order iterdir() lists them], each subdirectory    *)
(* [name, entries: the names of the files in it, dirs: the names of the    *)
(* directories in it, deep: the names of the files in those].              *)
(***************************************************************************)
PDF == <<".", "p", "d", "f">>
MD == <<".", "m", "d">>
SUPPORTED_FORMATS == {PDF, <<".", "d", "o", "c", "x">>, <<".", "p", "p", "t", "x">>,
                      <<".", "x", "l", "s", "x">>, <<".", "h", "t", "m", "l">>,
                      MD, <<".", "t", "x", "t">>}

ROOT == <<"_", "r", "o", "o", "t">>

\* dict[key] = value: an existing key keeps its position, a new key goes last
DictSet(d, key, value) ==
    IF \E i \in 1..Len(d) : d[i].key = key
    THEN [i \in 1..Len(d) |-> IF d[i].key = key THEN [key |-> key, value |-> value] ELSE d[i]]
    ELSE Append(d, [key |-> key, value |-> value])

DictKeys(d) == {d[i].key : i \in 1..Len(d)}

DictGet(d, key) == d[CHOOSE i \in 1..Len(d) : d[i].key = key].value

\* the entries of a directory that some glob("*<ext>") of the supported formats lists
SupportedIn(entries) == {n \in entries : \E ext \in SUPPORTED_FORMATS : EndsWith(n, ext)}

\* the loop over imports_dir.iterdir() (utils.py 173-182)
RECURSIVE ScanSubdirs(_, _)
ScanSubdirs(subdirs, processing_map) ==
    IF subdirs = <<>> THEN processing_map
    ELSE LET item == Head(subdirs)
             \* item.glob lists files and directories alike, one level deep
             supported_files == SupportedIn(item.entries \cup item.dirs)
         IN IF Head(item.name) # "." /\ supported_files # {}
            THEN ScanSubdirs(Tail(subdirs),
                             DictSet(processing_map, item.name, Sorted(supported_files)))
            ELSE ScanSubdirs(Tail(subdirs), processing_map)

\* discover_processing_folders: the exception it raises (None when it returns),
\* the mapping it returns and the formats the ValueError message names
discover_processing_folders(exists, tree) ==
    IF ~exists
    THEN [raised |-> "FileNotFoundError", processing_map |-> <<>>, supported_exts |-> <<>>]
    ELSE IF ~tree.is_dir
    THEN \* imports_dir.iterdir() of a path that is not a directory
         [raised |-> "NotADirectoryError", processing_map |-> <<>>, supported_exts |-> <<>>]
    ELSE LET \* imports_dir.glob lists files and directories alike
             direct_files == SupportedIn(tree.rootEntries
                                \cup {tree.subdirs[i].name : i \in 1..Len(tree.subdirs)})
             withRoot == IF direct_files # {}
                         THEN DictSet(<<>>, ROOT, Sorted(direct_files))
                         ELSE <<>>
             processing_map == ScanSubdirs(tree.subdirs, withRoot)
         IN IF processing_map = <<>>
            THEN [raised |-> "ValueError", processing_map |-> <<>>,
                  supported_exts |-> Sorted(SUPPORTED_FORMATS)]
            ELSE [raised |-> None, processing_map |-> processing_map,
                  supported_exts |-> <<>>]

(***************************************************************************)
(* The conversion ledger (utils.py 221-274).  The output directory is a    *)
(* sequence of entries [name, mtime, content] in listing order.            *)
(***************************************************************************)
\* the mutant: the pattern f"{sanitized_folder_name}*.md", without the underscore
GlobMatchNoUnderscore(name, sanitized_folder_name) ==
    /\ Len(name) >= Len(sanitized_folder_name) + Len(MD)
    /\ StartsWith(name, sanitized_folder_name)
    /\ EndsWith(name, MD)

\* fnmatch of a name against the pattern f"{sanitized_folder_name}_*.md"
GlobMatch(name, sanitized_folder_name) ==
    /\ Len(name) >= Len(sanitized_folder_name) + 1 + Len(MD)
    /\ StartsWith(name, sanitized_folder_name \o <<"_">>)
    /\ EndsWith(name, MD)

\* list(exports_dir.glob(pattern)), in listing order
RECURSIVE Glob(_, _)
Glob(entries, sanitized_folder_name) ==
    IF entries = <<>> THEN <<>>
    ELSE IF GlobMatch(Head(entries).name, sanitized_folder_name)
         THEN <<Head(entries)>> \o Glob(Tail(entries), sanitized_folder_name)
         ELSE Glob(Tail(entries), sanitized_folder_name)

check_folder_already_converted(folder_name, exists, entries) ==
    IF ~exists THEN FALSE
    ELSE Glob(entries, sanitize_filename(folder_name)) # <<>>

\* the mutant: reverse=True is left out, the oldest entry comes first
RECURSIVE SortOldestFirst(_)
SortOldestFirst(files) ==
    IF files = <<>> THEN <<>>
    ELSE LET rest == SortOldestFirst(SubSeq(files, 1, Len(files) - 1))
             x == files[Len(files)]
             k == Cardinality({i \in 1..Len(rest) : rest[i].mtime <= x.mtime})
         IN SubSeq(rest, 1, k) \o <<x>> \o SubSeq(rest, k + 1, Len(rest))

\* list.sort(key=mtime, reverse=True): stable, entries of equal mtime keep
\* their listing order
RECURSIVE SortNewestFirst(_)
SortNewestFirst(files) ==
    IF files = <<>> THEN <<>>
    ELSE LET rest == SortNewestFirst(SubSeq(files, 1, Len(files) - 1))
             x == files[Len(files)]
             k == Cardinality({i \in 1..Len(rest) : rest[i].mtime >= x.mtime})
         IN SubSeq(rest, 1, k) \o <<x>> \o SubSeq(rest, k + 1, Len(rest))

\* the mutant: the matches are returned as listed, not sorted
get_existing_converted_files_unsorted(folder_name, exists, entries) ==
    IF ~exists THEN <<>>
    ELSE Glob(entries, sanitize_filename(folder_name))

get_existing_converted_files(folder_name, exists, entries) ==
    IF ~exists THEN <<>>
    ELSE SortNewestFirst(Glob(entries, sanitize_filename(folder_name)))

(***************************************************************************)
(* Output directory helpers.                                               *)
(***************************************************************************)
FsNames(entries) == {entries[i].name : i \in 1..Len(entries)}

\* the mutant: the file is opened for appending, its prior content is kept
FsWriteAppending(entries, name, mtime, content) ==
    IF name \in FsNames(entries)
    THEN [i \in 1..Len(entries) |->
            IF entries[i].name = name
            THEN [name |-> name, mtime |-> mtime, content |-> entries[i].content \o content]
            ELSE entries[i]]
    ELSE Append(entries, [name |-> name, mtime |-> mtime, content |-> content])

\* open(path, "w") / write_text: an existing entry is replaced where it is
\* listed, a new one is listed last
FsWrite(entries, name, mtime, content) ==
    LET e == [name |-> name, mtime |-> mtime, content |-> content]
    IN IF name \in FsNames(entries)
       THEN [i \in 1..Len(entries) |-> IF entries[i].name = name THEN e ELSE entries[i]]
       ELSE Append(entries, e)

FsContent(entries, name) ==
    entries[CHOOSE i \in 1..Len(entries) : entries[i].name = name].content

FsAppend(entries, name, piece) ==
    [i \in 1..Len(entries) |->
        IF entries[i].name = name
        THEN [entries[i] EXCEPT !.content = Append(@, piece)]
        ELSE entries[i]]

\* the pieces written to an artifact
Header(folder_name, n) == [t |-> "header", folder |-> folder_name, file |-> <<>>, n |-> n]
Blob(folder_name, file) == [t |-> "blob", folder |-> folder_name, file |-> file, n |-> 0]
Separator == [t |-> "separator", folder |-> <<>>, file |-> <<>>, n |-> 0]
OldContent == [t |-> "old", folder |-> <<>>, file |-> <<>>, n |-> 0]

\* the lines of the summary report (orchestrator.py 210-225)
Line(kind, n) == [t |-> kind, folder |-> <<>>, file |-> <<>>, n |-> n]
Item(name) == [t |-> "item", folder |-> <<>>, file |-> name, n |-> 0]

\* lines 219-222: the failed-files section, written when failed_files is not empty
FailedSection(failed_files) ==
    IF failed_files # <<>>
    THEN <<Line("## Failed files", 0)>>
         \o [i \in 1..Len(failed_files) |-> Item(failed_files[i])]
         \o <<Line("", 0)>>
    ELSE <<>>

\* the content _generate_summary_report writes for a result
summary_lines(r) ==
    <<Line("# Processing Summary", 0),
      Line("", 0),
      Line("**Runtime:**", r.processing_time),
      Line("**Output files:**", Len(r.output_files)),
      Line("**Folders processed:**", Len(r.processed_folders)),
      Line("**Folders skipped:**", Len(r.skipped_folders)),
      Line("", 0)>>
    \o FailedSection(r.failed_files)
    \o <<Line("## Output files", 0)>>
    \o [i \in 1..Len(r.output_files) |-> Item(r.output_files[i])]

\* str(n) for 0 <= n <= 99
DigitChar(d) ==
    CASE d = 0 -> "0" [] d = 1 -> "1" [] d = 2 -> "2" [] d = 3 -> "3" [] d = 4 -> "4"
      [] d = 5 -> "5" [] d = 6 -> "6" [] d = 7 -> "7" [] d = 8 -> "8" [] d = 9 -> "9"
IntToStr(n) == IF n < 10 THEN <<DigitChar(n)>> ELSE <<DigitChar(n \div 10), DigitChar(n % 10)>>

PROCESSING_SUMMARY == <<"p", "r", "o", "c", "e", "s", "s", "i", "n", "g", "_",
                        "s", "u", "m", "m", "a", "r", "y", "_">>

(***************************************************************************)
(* The inputs the model draws from.                                        *)
(***************************************************************************)
X_PDF == <<"x">> \o PDF
Y_PDF == <<"y">> \o PDF
FileNames == {X_PDF, Y_PDF}

DIR_A == <<"a">>
DIR_A_B == <<"a", "_", "b">>
DirNames == {DIR_A, DIR_A_B}

\* a timestamp as generate_timestamp_filename writes it
TS_2024 == <<"2", "0", "2", "4", "-", "0", "1", "-", "0", "1", "_",
             "0", "0", "-", "0", "0", "-", "0", "0">>
A_TS_MD == DIR_A \o <<"_">> \o TS_2024 \o MD
ROOT_TS_MD == <<"r", "o", "o", "t", "_">> \o TS_2024 \o MD
A_B_MD == DIR_A_B \o MD
ExportNames == {A_TS_MD, A_B_MD, ROOT_TS_MD}

C_MD == <<"c">> \o MD
\* a.md is also the artifact name of the folder a
A_MD == DIR_A \o MD
OutputFilenames == {C_MD, A_MD, NoneName}

\* the files of a subdirectory: one file, or two
NonEmptyFileSets == {{X_PDF}, FileNames}

DirSeqs ==
    {<<>>}
    \cup {<<[name |-> d, entries |-> e, dirs |-> {}, deep |-> {}]>> :
            d \in DirNames, e \in NonEmptyFileSets}
    \cup {<<[name |-> d[1], entries |-> e1, dirs |-> {}, deep |-> {}],
             [name |-> d[2], entries |-> e2, dirs |-> {}, deep |-> {}]>> :
            d \in {p \in DirNames \X DirNames : p[1] # p[2]},
            e1 \in NonEmptyFileSets, e2 \in NonEmptyFileSets}

RECURSIVE SubdirFiles(_)
SubdirFiles(subdirs) ==
    IF subdirs = <<>> THEN 0
    ELSE Cardinality(Head(subdirs).entries) + SubdirFiles(Tail(subdirs))

TreeFiles(t) == Cardinality(t.rootEntries) + SubdirFiles(t.subdirs)

Trees == {t \in [is_dir : {TRUE}, rootEntries : SUBSET FileNames, subdirs : DirSeqs] :
            TreeFiles(t) <= MaxTreeFiles}

EmptyTree == [is_dir |-> TRUE, rootEntries |-> {}, subdirs |-> <<>>]

\* output directories of entries with the given names: distinct names listed
\* in name order, oldest first or newest first
DirsOf(names) ==
    UNION {{e \in [1..n -> [name : names, mtime : 1..n, content : {<<OldContent>>}]] :
              /\ \A i, j \in 1..n : i < j => StrLess(e[i].name, e[j].name)
              /\ \/ \A i \in 1..n : e[i].mtime = i
                 \/ \A i \in 1..n : e[i].mtime = n + 1 - i}
           : n \in 0..MaxExports}

\* the output directory before the first run
ExportSeqs == DirsOf(ExportNames)

(***************************************************************************)
(* State.                                                                  *)
(***************************************************************************)
VARIABLES
    SKIP_ALREADY_CONVERTED,  \* cfg.SKIP_ALREADY_CONVERTED
    output_filename,         \* run's output_filename argument, NoneName when absent
    importsExists,           \* imports_path.exists()
    tree,                    \* the input tree
    exportsExists,           \* exports_path.exists()
    exports,                 \* the output directory
    clock,                   \* time.time(), also the mtime of what is written
    pc,                      \* where run is: "start", "loop", "files", "done"
    start_time,              \* run's start_time
    processing_map,          \* the mapping discovery returned
    gi,                      \* index in processing_map of the group the loop is at
    fi,                      \* index of the next file of the group
    out_path,                \* the artifact open for writing, NoneName when none
    result,                  \* the ConversionResult being built
    outcome,                 \* "running", "returned" or "raised"
    raised,                  \* the exception that left run, None when none
    calls,                   \* history: the Transformation Port invocations
    failedIn,                \* history: the folder of each entry of failed_files
    portFailed,              \* history: the [folder, file] the Port failed for
    ioFaults,                \* history: the [folder, kind] output I/O faults
    faults,                  \* output I/O faults injected so far
    portFailures,            \* Transformation Port failures injected so far
    phase,                   \* "first" run, "rerun" or "twin" run
    prev,                    \* the first run's outcome, kept for the second
    exports0,                \* the output directory as the first run found it
    twinFolder,              \* the folder whose files the twin run changed
    ledger,                  \* a direct query of the ledger and its answer
    decided,                 \* history: the skip decisions of line 84, in order
    sanitizing,              \* a name and the results of sanitizing it, again and again
    objects                  \* ConversionResult objects and the lists and dicts they hold

vars == <<SKIP_ALREADY_CONVERTED, output_filename, importsExists, tree, exportsExists,
          exports, clock, pc, start_time, processing_map, gi, fi, out_path, result,
          outcome, raised, calls, failedIn, portFailed, ioFaults, faults,
          portFailures, phase, prev, exports0, twinFolder, ledger, decided, sanitizing,
          objects>>

config == <<SKIP_ALREADY_CONVERTED, output_filename>>
inputs == <<importsExists, tree>>
probes == <<sanitizing, objects>>
harness == <<phase, prev, exports0, twinFolder, ledger, probes>>

\* ConversionResult() (result.py 21-48)
ConversionResult ==
    [success |-> FALSE, output_files |-> <<>>, processed_folders |-> <<>>,
     skipped_folders |-> <<>>, failed_files |-> <<>>, total_pages |-> 0,
     total_images |-> 0, processing_time |-> 0, error_message |-> None]

NoPrev == [valid |-> FALSE, result |-> ConversionResult, calls |-> <<>>,
           processing_map |-> <<>>, outcome |-> "running"]

NoQuery == [folder |-> NoneName, asked |-> {}, answer |-> FALSE, existing |-> <<>>]

NoSanitizing == [filename |-> <<>>, results |-> <<>>]

NoObjects == [heap |-> <<>>, results |-> <<>>, touched |-> <<>>]

RunStart ==
    /\ pc = "start"
    /\ start_time = 0
    /\ processing_map = <<>>
    /\ gi = 1
    /\ fi = 1
    /\ out_path = NoneName
    /\ result = ConversionResult
    /\ outcome = "running"
    /\ raised = None
    /\ calls = <<>>
    /\ failedIn = <<>>
    /\ portFailed = {}
    /\ ioFaults = {}
    /\ decided = <<>>

InitInputs ==
    /\ SKIP_ALREADY_CONVERTED \in BOOLEAN
    /\ \/ importsExists = TRUE /\ tree \in Trees
       \/ importsExists = FALSE /\ tree = EmptyTree
    \* run reads output_filename for the root group only
    /\ output_filename \in OutputFilenames
    /\ output_filename = NoneName => tree.rootEntries # {}
    /\ \/ exportsExists = TRUE /\ exports \in ExportSeqs
       \/ exportsExists = FALSE /\ exports = <<>>
    \* a root output name that is the artifact name of a folder: drawn for the
    \* trees that have both groups, on an empty output directory
    /\ output_filename = A_MD =>
          /\ tree.rootEntries # {}
          /\ \E i \in 1..Len(tree.subdirs) : tree.subdirs[i].name = DIR_A
          /\ exports = <<>>
    /\ clock = MaxExports
    /\ RunStart
    /\ portFailures = 0
    /\ phase = "first"
    /\ prev = NoPrev
    /\ exports0 = exports
    /\ twinFolder = NoneName
    /\ ledger = NoQuery
    /\ sanitizing = NoSanitizing
    /\ objects = NoObjects

Init == InitInputs /\ faults = 0

\* the same inputs, with no output I/O fault left to inject
InitNoFaults == InitInputs /\ faults = MaxFaults

(***************************************************************************)
(* Orchestrator.run (orchestrator.py 66-146), one action per step.         *)
(***************************************************************************)
CanFault == faults < MaxFaults
CanPortFail == portFailures < MaxPortFailures

Raise(exc) ==
    /\ pc' = "done"
    /\ outcome' = "raised"
    /\ raised' = exc

\* [f.name for f in files]
Group == processing_map[gi]

\* lines 73-81: the result is created, the output directory is made and the
\* input root is scanned; neither call is guarded
Begin ==
    /\ pc = "start"
    /\ start_time' = clock
    /\ result' = ConversionResult
    /\ UNCHANGED <<config, inputs, harness, exports, clock, gi, fi, out_path, calls, decided,
                   failedIn, portFailed, ioFaults, portFailures>>
    /\ \/ \* exports_path.mkdir fails
          /\ CanFault
          /\ faults' = faults + 1
          /\ Raise("OSError")
          /\ UNCHANGED <<exportsExists, processing_map>>
       \/ /\ exportsExists' = TRUE
          /\ faults' = faults
          /\ LET d == discover_processing_folders(importsExists, tree)
             IN IF d.raised # None
                THEN /\ Raise(d.raised)
                     /\ UNCHANGED processing_map
                ELSE /\ processing_map' = d.processing_map
                     /\ pc' = "loop"
                     /\ UNCHANGED <<outcome, raised>>

\* the mutant: a folder is skipped only when it has an artifact for each file
ShouldSkipPerFile(folder_name, files) ==
    /\ SKIP_ALREADY_CONVERTED
    /\ check_folder_already_converted(folder_name, exportsExists, exports)
    /\ Len(Glob(exports, sanitize_filename(folder_name))) >= Len(files)

\* the mutant: the ledger alone decides, the flag is not consulted
ShouldSkipAnyway(folder_name, files) ==
    check_folder_already_converted(folder_name, exportsExists, exports)

\* line 84: the skip decision for a folder group
ShouldSkip(folder_name, files) ==
    /\ SKIP_ALREADY_CONVERTED
    /\ check_folder_already_converted(folder_name, exportsExists, exports)

\* line 84 evaluated for a folder: whether the ledger was asked (the flag is
\* tested first, and short-circuits) and what was decided
Decision(folder_name, skip) ==
    [folder |-> folder_name, ledger |-> SKIP_ALREADY_CONVERTED, skip |-> skip]

\* lines 84-91: the folder is already converted
SkipFolder ==
    /\ pc = "loop"
    /\ gi <= Len(processing_map)
    /\ ShouldSkip(Group.key, Group.value)
    /\ LET existing == get_existing_converted_files(Group.key, exportsExists, exports)
       IN result' = [result EXCEPT
              !.skipped_folders = DictSet(@, Group.key, Group.value),
              !.output_files = @ \o [i \in 1..Len(existing) |-> existing[i].name]]
    /\ gi' = gi + 1
    /\ decided' = Append(decided, Decision(Group.key, TRUE))
    /\ UNCHANGED <<config, inputs, harness, exportsExists, exports, clock, pc, start_time,
                   processing_map, fi, out_path, outcome, raised, calls, failedIn,
                   portFailed, ioFaults, faults, portFailures>>

\* lines 96-98
OutName(folder_name) ==
    IF folder_name = ROOT THEN output_filename ELSE folder_name \o MD

\* lines 93-110: the folder is not skipped; its artifact is opened (truncated)
\* and the header is written
OpenFolder ==
    /\ pc = "loop"
    /\ gi <= Len(processing_map)
    /\ ~ShouldSkip(Group.key, Group.value)
    /\ decided' = Append(decided, Decision(Group.key, FALSE))
    /\ UNCHANGED <<config, inputs, harness, exportsExists, start_time, processing_map,
                   result, calls, failedIn, portFailed, portFailures>>
    /\ LET out_name == OutName(Group.key)
       IN IF out_name = NoneName
          THEN \* exports_path / None, outside the try
               /\ Raise("TypeError")
               /\ UNCHANGED <<exports, clock, gi, fi, out_path, ioFaults, faults>>
          ELSE \/ \* open fails: logged, next folder
                  /\ CanFault
                  /\ faults' = faults + 1
                  /\ ioFaults' = ioFaults \cup {[folder |-> Group.key, kind |-> "open"]}
                  /\ gi' = gi + 1
                  /\ UNCHANGED <<exports, clock, pc, fi, out_path, outcome, raised>>
               \/ \* the header write fails: logged, next folder
                  /\ CanFault
                  /\ faults' = faults + 1
                  /\ ioFaults' = ioFaults \cup {[folder |-> Group.key, kind |-> "header"]}
                  /\ clock' = clock + 1
                  /\ exports' = FsWrite(exports, out_name, clock + 1, <<>>)
                  /\ gi' = gi + 1
                  /\ UNCHANGED <<pc, fi, out_path, outcome, raised>>
               \/ /\ clock' = clock + 1
                  /\ exports' = FsWrite(exports, out_name, clock + 1,
                                        <<Header(Group.key, Len(Group.value))>>)
                  /\ out_path' = out_name
                  /\ fi' = 1
                  /\ pc' = "files"
                  /\ UNCHANGED <<gi, outcome, raised, ioFaults, faults>>

\* the mutant: the failure is logged and not recorded
RecordFailureLost(file) == UNCHANGED <<result, failedIn>>

\* except Exception (lines 129-132)
RecordFailure(file) ==
    /\ result' = [result EXCEPT !.failed_files = Append(@, file)]
    /\ failedIn' = Append(failedIn, Group.key)

\* result.processed_folders.setdefault(folder_name, []).append(name)
SetDefaultAppend(d, key, name) ==
    IF key \in DictKeys(d) THEN DictSet(d, key, Append(DictGet(d, key), name))
    ELSE DictSet(d, key, <<name>>)

\* the mutant: the file that failed is attempted again
AfterFailureRetry(i, n) == i

\* the mutant: a failure ends the loop over the files of the folder
AfterFailureBreak(i, n) == n + 1

\* where the for loop of line 112 goes on after the file at index i of n failed:
\* the except clause ends the iteration, not the loop
AfterFailure(i, n) == i + 1

\* lines 112-132: one file of the folder
TransformFile ==
    /\ pc = "files"
    /\ fi <= Len(Group.value)
    /\ LET file == Group.value[fi]
       IN /\ calls' = Append(calls, [folder |-> Group.key, file |-> file])
          /\ UNCHANGED <<config, inputs, harness, exportsExists, clock, pc, start_time,
                         processing_map, gi, out_path, outcome, raised, decided>>
          /\ \/ \* transform raises
                /\ CanPortFail
                /\ portFailures' = portFailures + 1
                /\ portFailed' = portFailed \cup {[folder |-> Group.key, file |-> file]}
                /\ RecordFailure(file)
                /\ fi' = AfterFailure(fi, Len(Group.value))
                /\ UNCHANGED <<exports, ioFaults, faults>>
             \/ \* out_f.write(blob) raises
                /\ CanFault
                /\ faults' = faults + 1
                /\ ioFaults' = ioFaults \cup {[folder |-> Group.key, kind |-> "blob"]}
                /\ RecordFailure(file)
                /\ fi' = AfterFailure(fi, Len(Group.value))
                /\ UNCHANGED <<exports, portFailed, portFailures>>
             \/ \* the separator write raises
                /\ CanFault
                /\ faults' = faults + 1
                /\ ioFaults' = ioFaults \cup {[folder |-> Group.key, kind |-> "separator"]}
                /\ exports' = FsAppend(exports, out_path, Blob(Group.key, file))
                /\ RecordFailure(file)
                /\ fi' = AfterFailure(fi, Len(Group.value))
                /\ UNCHANGED <<portFailed, portFailures>>
             \/ /\ exports' = FsAppend(FsAppend(exports, out_path, Blob(Group.key, file)),
                                       out_path, Separator)
                /\ result' = [result EXCEPT
                       !.processed_folders = SetDefaultAppend(@, Group.key, file)]
                /\ fi' = fi + 1
                /\ UNCHANGED <<failedIn, portFailed, portFailures, ioFaults, faults>>

\* the end of the with block and line 134
CloseFolder ==
    /\ pc = "files"
    /\ fi > Len(Group.value)
    /\ pc' = "loop"
    /\ gi' = gi + 1
    /\ out_path' = NoneName
    /\ UNCHANGED <<config, inputs, harness, exportsExists, exports, clock, start_time,
                   processing_map, fi, outcome, raised, calls, failedIn, portFailed,
                   portFailures, decided>>
    /\ \/ \* flushing or closing the file fails: logged, next folder
          /\ CanFault
          /\ faults' = faults + 1
          /\ ioFaults' = ioFaults \cup {[folder |-> Group.key, kind |-> "close"]}
          /\ UNCHANGED result
       \/ /\ result' = [result EXCEPT !.output_files = Append(@, out_path)]
          /\ UNCHANGED <<ioFaults, faults>>

\* the mutant: success when some folder was processed
SuccessIfProcessed(r) == r.processed_folders # <<>>

\* bool(result.output_files)
Success(r) == r.output_files # <<>>

\* _generate_summary_report's file name (lines 208-209)
SummaryName(now) == PROCESSING_SUMMARY \o IntToStr(now) \o MD

\* lines 141-146: the result is finalised and the report written, unguarded.
\* The report is named after the time _generate_summary_report reads: the
\* second the run started in when the run took less than a second, a later
\* one otherwise.
Finalise ==
    /\ pc = "loop"
    /\ gi > Len(processing_map)
    /\ pc' = "done"
    /\ result' = [result EXCEPT !.processing_time = clock - start_time,
                                !.success = Success(result)]
    /\ UNCHANGED <<config, inputs, harness, exportsExists, start_time, processing_map,
                   gi, fi, out_path, calls, failedIn, portFailed, portFailures, decided>>
    /\ \/ \* summary_path.write_text fails
          /\ CanFault
          /\ faults' = faults + 1
          /\ ioFaults' = ioFaults \cup {[folder |-> NoneName, kind |-> "report"]}
          /\ outcome' = "raised"
          /\ raised' = "OSError"
          /\ UNCHANGED <<exports, clock>>
       \/ \E now \in {start_time, clock + 1} :
             /\ clock' = clock + 1
             /\ exports' = FsWrite(exports, SummaryName(now), clock + 1, summary_lines(result'))
             /\ outcome' = "returned"
             /\ UNCHANGED <<raised, faults, ioFaults>>

(***************************************************************************)
(* A second run of the pipeline after the first has ended.                 *)
(***************************************************************************)
Remember ==
    prev' = [valid |-> TRUE, result |-> result, calls |-> calls,
             processing_map |-> processing_map, outcome |-> outcome]

Restart ==
    /\ pc' = "start"
    /\ start_time' = 0
    /\ processing_map' = <<>>
    /\ gi' = 1
    /\ fi' = 1
    /\ out_path' = NoneName
    /\ result' = ConversionResult
    /\ outcome' = "running"
    /\ raised' = None
    /\ calls' = <<>>
    /\ failedIn' = <<>>
    /\ portFailed' = {}
    /\ ioFaults' = {}
    /\ decided' = <<>>

\* the pipeline is run again on the unchanged input tree and the output
\* directory the first run left
Rerun ==
    /\ pc = "done"
    /\ phase = "first"
    /\ phase' = "rerun"
    /\ Remember
    /\ Restart
    /\ UNCHANGED <<config, inputs, exportsExists, exports, clock, faults, portFailures,
                   exports0, twinFolder, ledger, probes>>

\* the tree with one file added to or removed from one of its folders
ToggleIn(entries, file) ==
    IF file \in entries THEN entries \ {file} ELSE entries \cup {file}

ToggleFile(t, folder_name, file) ==
    IF folder_name = ROOT
    THEN [t EXCEPT !.rootEntries = ToggleIn(@, file)]
    ELSE [t EXCEPT !.subdirs =
            [i \in 1..Len(@) |->
                IF @[i].name = folder_name
                THEN [@[i] EXCEPT !.entries = ToggleIn(@, file)]
                ELSE @[i]]]

\* the pipeline is run on the same output directory contents as the first run
\* found, the input tree differing in one file of one folder
RunTwin ==
    /\ pc = "done"
    /\ phase = "first"
    /\ phase' = "twin"
    /\ Remember
    /\ Restart
    /\ exports' = exports0
    /\ \E folder_name \in DictKeys(processing_map), file \in FileNames :
          /\ tree' = ToggleFile(tree, folder_name, file)
          /\ twinFolder' = folder_name
    /\ UNCHANGED <<config, importsExists, exportsExists, clock, faults, portFailures,
                   exports0, ledger, probes>>

Next ==
    \/ Begin
    \/ SkipFolder
    \/ OpenFolder
    \/ TransformFile
    \/ CloseFolder
    \/ Finalise

Spec == Init /\ [][Next]_vars

(***************************************************************************)
(* The ledger asked directly, on any output directory, existing or not.    *)
(***************************************************************************)
A_EMPTY_MD == DIR_A \o <<"_">> \o MD
DIR_A_SPACE_B == <<"a", " ", "b">>
LedgerNames == ExportNames \cup {A_MD, A_EMPTY_MD}
LedgerFolders == {DIR_A, DIR_A_B, DIR_A_SPACE_B, ROOT}

LedgerDirs == DirsOf(LedgerNames)

InitLedger ==
    /\ SKIP_ALREADY_CONVERTED = TRUE
    /\ output_filename = C_MD
    /\ importsExists = TRUE
    /\ tree = EmptyTree
    /\ \/ exportsExists = TRUE /\ exports \in LedgerDirs
       \/ exportsExists = FALSE /\ exports = <<>>
    /\ clock = MaxExports
    /\ pc = "ledger"
    /\ start_time = 0
    /\ processing_map = <<>>
    /\ gi = 1
    /\ fi = 1
    /\ out_path = NoneName
    /\ result = ConversionResult
    /\ outcome = "running"
    /\ raised = None
    /\ calls = <<>>
    /\ failedIn = <<>>
    /\ portFailed = {}
    /\ ioFaults = {}
    /\ decided = <<>>
    /\ sanitizing = NoSanitizing
    /\ objects = NoObjects
    /\ faults = 0
    /\ portFailures = 0
    /\ phase = "first"
    /\ prev = NoPrev
    /\ exports0 = exports
    /\ twinFolder = NoneName
    /\ \E folder_name \in LedgerFolders : ledger = [NoQuery EXCEPT !.folder = folder_name]

notLedger == <<SKIP_ALREADY_CONVERTED, output_filename, importsExists, tree, exportsExists,
               exports, clock, pc, start_time, processing_map, gi, fi, out_path, result,
               outcome, raised, calls, failedIn, portFailed, ioFaults, faults,
               portFailures, phase, prev, exports0, twinFolder, decided, sanitizing,
               objects>>

AskAlreadyConverted ==
    /\ pc = "ledger"
    /\ "converted" \notin ledger.asked
    /\ ledger' = [ledger EXCEPT
          !.asked = @ \cup {"converted"},
          !.answer = check_folder_already_converted(ledger.folder, exportsExists, exports)]
    /\ UNCHANGED notLedger

AskExistingArtifacts ==
    /\ pc = "ledger"
    /\ "existing" \notin ledger.asked
    /\ ledger' = [ledger EXCEPT
          !.asked = @ \cup {"existing"},
          !.existing = get_existing_converted_files(ledger.folder, exportsExists, exports)]
    /\ UNCHANGED notLedger

NextLedger == AskAlreadyConverted \/ AskExistingArtifacts

SpecLedger == InitLedger /\ [][NextLedger]_vars

\* two runs in a row, without output I/O faults
NextRerun == Next \/ Rerun

SpecRerun == InitNoFaults /\ [][NextRerun]_vars

\* two runs from the same output directory contents, without output I/O faults
NextTwin == Next \/ RunTwin

SpecTwin == InitNoFaults /\ [][NextTwin]_vars

(***************************************************************************)
(* Discovery called directly, on input roots of any shape: files with and  *)
(* without a supported extension, hidden subdirectories, directories named *)
(* like documents, nested directories, a root that is a file or missing.   *)
(***************************************************************************)
N_BIN == <<"n", ".", "b", "i", "n">>
U_PDF == <<"u">> \o PDF
HIDDEN == <<".", "h">>
DiscoverDirNames == {DIR_A, DIR_A_B, HIDDEN, X_PDF, ROOT}

DiscoverItems ==
    {i \in [name : DiscoverDirNames, entries : SUBSET {Y_PDF, N_BIN},
            dirs : SUBSET {X_PDF}, deep : SUBSET {U_PDF}] :
        i.deep # {} => i.dirs # {}}

DiscoverDirSeqs ==
    {<<>>}
    \cup {<<i>> : i \in DiscoverItems}
    \cup {<<p[1], p[2]>> : p \in {q \in DiscoverItems \X DiscoverItems :
                                    q[1].name # q[2].name}}

\* a name is the name of one entry of a directory
DiscoverTrees ==
    {t \in [is_dir : {TRUE}, rootEntries : SUBSET {X_PDF, N_BIN}, subdirs : DiscoverDirSeqs] :
        \A i \in 1..Len(t.subdirs) : t.subdirs[i].name \notin t.rootEntries}

\* an input root that exists and is a file
FileAsRoot == [is_dir |-> FALSE, rootEntries |-> {}, subdirs |-> <<>>]

InitDiscover ==
    /\ SKIP_ALREADY_CONVERTED = TRUE
    /\ output_filename = C_MD
    /\ \/ importsExists = TRUE /\ tree \in DiscoverTrees \cup {FileAsRoot}
       \/ importsExists = FALSE /\ tree = EmptyTree
    /\ exportsExists = TRUE
    /\ exports = <<>>
    /\ clock = MaxExports
    /\ pc = "discover"
    /\ start_time = 0
    /\ processing_map = <<>>
    /\ gi = 1
    /\ fi = 1
    /\ out_path = NoneName
    /\ result = ConversionResult
    /\ outcome = "running"
    /\ raised = None
    /\ calls = <<>>
    /\ failedIn = <<>>
    /\ portFailed = {}
    /\ ioFaults = {}
    /\ decided = <<>>
    /\ sanitizing = NoSanitizing
    /\ objects = NoObjects
    /\ faults = 0
    /\ portFailures = 0
    /\ phase = "first"
    /\ prev = NoPrev
    /\ exports0 = exports
    /\ twinFolder = NoneName
    /\ ledger = NoQuery

\* discover_processing_folders(imports_dir) is called
Discover ==
    /\ pc = "discover"
    /\ pc' = "discovered"
    /\ LET d == discover_processing_folders(importsExists, tree)
       IN /\ raised' = d.raised
          /\ processing_map' = d.processing_map
          /\ outcome' = IF d.raised = None THEN "returned" ELSE "raised"
    /\ UNCHANGED <<config, inputs, harness, exportsExists, exports, clock, start_time,
                   gi, fi, out_path, result, calls, failedIn, portFailed, ioFaults,
                   faults, portFailures, decided>>

\* the same subdirectories, listed by iterdir() in any order
Relisted(subdirs) ==
    {[i \in 1..Len(subdirs) |-> subdirs[f[i]]] :
        f \in {g \in [1..Len(subdirs) -> 1..Len(subdirs)] :
                 \A i, j \in 1..Len(subdirs) : i # j => g[i] # g[j]}}

\* discovery is called again on the same directory contents, which the
\* filesystem may list in another order
Relist ==
    /\ pc = "discovered"
    /\ phase = "first"
    /\ phase' = "rerun"
    /\ Remember
    /\ pc' = "discover"
    /\ processing_map' = <<>>
    /\ outcome' = "running"
    /\ raised' = None
    /\ \E subdirs \in Relisted(tree.subdirs) : tree' = [tree EXCEPT !.subdirs = subdirs]
    /\ UNCHANGED <<config, importsExists, exportsExists, exports, clock, start_time,
                   gi, fi, out_path, result, calls, failedIn, portFailed, ioFaults,
                   faults, portFailures, exports0, twinFolder, ledger, decided, probes>>

NextDiscover == Discover \/ Relist

SpecDiscover == InitDiscover /\ [][NextDiscover]_vars

(***************************************************************************)
(* sanitize_filename called directly, on any short string over word        *)
(* characters, whitespace, underscores, hyphens, dots, path separators and *)
(* special characters, and on the inputs of test_sanitize_filename.        *)
(***************************************************************************)
\* the longest string drawn
MaxNameLen == 3

SanitizeChars == {"a", "_", " ", "-", ".", "/", "!"}

\* the inputs of tests/test_basic_functionality.py 26-33 and the results the
\* test expects
MY_DOCUMENT_PDF == <<"M", "y", " ", "D", "o", "c", "u", "m", "e", "n", "t", "!">> \o PDF
SPECIAL_CHARS_PDF == <<"s", "p", "e", "c", "i", "a", "l", "@", "#", "$", "%",
                       "c", "h", "a", "r", "s">> \o PDF
MULTIPLE_UNDERSCORES_PDF == <<"m", "u", "l", "t", "i", "p", "l", "e", "_", "_", "_",
                              "u", "n", "d", "e", "r", "s", "c", "o", "r", "e", "s">> \o PDF
test_cases ==
    {[input_name |-> MY_DOCUMENT_PDF,
      expected |-> <<"M", "y", "_", "D", "o", "c", "u", "m", "e", "n", "t", "_">>],
     [input_name |-> SPECIAL_CHARS_PDF,
      expected |-> <<"s", "p", "e", "c", "i", "a", "l", "_", "_", "_", "_",
                     "c", "h", "a", "r", "s">>],
     [input_name |-> MULTIPLE_UNDERSCORES_PDF,
      expected |-> <<"m", "u", "l", "t", "i", "p", "l", "e", "_",
                     "u", "n", "d", "e", "r", "s", "c", "o", "r", "e", "s">>],
     [input_name |-> <<>>, expected |-> UNTITLED]}

SanitizeInputs ==
    UNION {[1..n -> SanitizeChars] : n \in 0..MaxNameLen}
    \cup {c.input_name : c \in test_cases}

InitSanitize ==
    /\ SKIP_ALREADY_CONVERTED = TRUE
    /\ output_filename = C_MD
    /\ importsExists = TRUE
    /\ tree = EmptyTree
    /\ exportsExists = TRUE
    /\ exports = <<>>
    /\ clock = MaxExports
    /\ pc = "sanitize"
    /\ start_time = 0
    /\ processing_map = <<>>
    /\ gi = 1
    /\ fi = 1
    /\ out_path = NoneName
    /\ result = ConversionResult
    /\ outcome = "running"
    /\ raised = None
    /\ calls = <<>>
    /\ failedIn = <<>>
    /\ portFailed = {}
    /\ ioFaults = {}
    /\ decided = <<>>
    /\ objects = NoObjects
    /\ faults = 0
    /\ portFailures = 0
    /\ phase = "first"
    /\ prev = NoPrev
    /\ exports0 = exports
    /\ twinFolder = NoneName
    /\ ledger = NoQuery
    /\ \E filename \in SanitizeInputs : sanitizing = [NoSanitizing EXCEPT !.filename = filename]

notSanitizing == <<SKIP_ALREADY_CONVERTED, output_filename, importsExists, tree, exportsExists,
                   exports, clock, pc, start_time, processing_map, gi, fi, out_path, result,
                   outcome, raised, calls, failedIn, portFailed, ioFaults, faults,
                   portFailures, phase, prev, exports0, twinFolder, ledger, decided, objects>>

\* sanitize_filename is applied to the name, then to its own result
Sanitize ==
    /\ pc = "sanitize"
    /\ Len(sanitizing.results) < 2
    /\ sanitizing' = [sanitizing EXCEPT !.results =
          Append(@, sanitize_filename(IF @ = <<>> THEN sanitizing.filename ELSE @[Len(@)]))]
    /\ UNCHANGED notSanitizing

NextSanitize == Sanitize

SpecSanitize == InitSanitize /\ [][NextSanitize]_vars

(***************************************************************************)
(* ConversionResult objects (result.py 21-66, converter.py 31-56): each    *)
(* list and dict lives at an address of a heap, a result holds the         *)
(* addresses of its four containers, and results are constructed and       *)
(* mutated in any order.                                                   *)
(***************************************************************************)
\* the ConversionResult objects constructed
MaxResults == 2
\* the mutations made
MaxMutations == 3

\* the mutant: one default object per type, shared by every instance
default_shared(heap, kind) ==
    IF \E a \in 1..Len(heap) : heap[a].kind = kind
    THEN CHOOSE a \in 1..Len(heap) :
            /\ heap[a].kind = kind
            /\ \A b \in 1..(a - 1) : heap[b].kind # kind
    ELSE Len(heap) + 1

\* field(default_factory=list) and field(default_factory=dict), or [] and {}
\* in __init__: the address of the object the instance gets, a new one
default_factory(heap, kind) == Len(heap) + 1

\* the heap holding the object at the address
Allocated(heap, addr, kind) ==
    IF addr > Len(heap) THEN Append(heap, [kind |-> kind, items |-> <<>>]) ELSE heap

\* the property output_file: the first output file, if any
output_file(output_files) ==
    IF output_files # <<>> THEN output_files[1] ELSE NoneName

\* the property processed_files: the lists of processed_folders, one after
\* the other
RECURSIVE processed_files(_)
processed_files(processed_folders) ==
    IF processed_folders = <<>> THEN <<>>
    ELSE Head(processed_folders).value \o processed_files(Tail(processed_folders))

InitObjects ==
    /\ SKIP_ALREADY_CONVERTED = TRUE
    /\ output_filename = C_MD
    /\ importsExists = TRUE
    /\ tree = EmptyTree
    /\ exportsExists = TRUE
    /\ exports = <<>>
    /\ clock = MaxExports
    /\ pc = "objects"
    /\ start_time = 0
    /\ processing_map = <<>>
    /\ gi = 1
    /\ fi = 1
    /\ out_path = NoneName
    /\ result = ConversionResult
    /\ outcome = "running"
    /\ raised = None
    /\ calls = <<>>
    /\ failedIn = <<>>
    /\ portFailed = {}
    /\ ioFaults = {}
    /\ decided = <<>>
    /\ sanitizing = NoSanitizing
    /\ faults = 0
    /\ portFailures = 0
    /\ phase = "first"
    /\ prev = NoPrev
    /\ exports0 = exports
    /\ twinFolder = NoneName
    /\ ledger = NoQuery
    /\ objects = NoObjects

notObjects == <<SKIP_ALREADY_CONVERTED, output_filename, importsExists, tree, exportsExists,
                exports, clock, pc, start_time, processing_map, gi, fi, out_path, result,
                outcome, raised, calls, failedIn, portFailed, ioFaults, faults,
                portFailures, phase, prev, exports0, twinFolder, ledger, decided,
                sanitizing>>

\* ConversionResult(): the scalar defaults, and a container from each factory
Construct ==
    /\ pc = "objects"
    /\ Len(objects.results) < MaxResults
    /\ LET a1 == default_factory(objects.heap, "list")
           h1 == Allocated(objects.heap, a1, "list")
           a2 == default_factory(h1, "dict")
           h2 == Allocated(h1, a2, "dict")
           a3 == default_factory(h2, "dict")
           h3 == Allocated(h2, a3, "dict")
           a4 == default_factory(h3, "list")
           h4 == Allocated(h3, a4, "list")
       IN objects' = [objects EXCEPT
              !.heap = h4,
              !.results = Append(@, [ConversionResult EXCEPT
                                        !.output_files = a1,
                                        !.processed_folders = a2,
                                        !.skipped_folders = a3,
                                        !.failed_files = a4])]
    /\ UNCHANGED notObjects

\* what run does to its result: an append to a list (orchestrator.py 88, 132,
\* 134), a list stored or extended under a folder (87, 123-124), the flag and
\* the timer set (142-143)
Mutate ==
    /\ pc = "objects"
    /\ Len(objects.touched) < MaxMutations
    /\ \E r \in 1..Len(objects.results) :
          LET x == objects.results[r]
          IN /\ \/ \E f \in {"output_files", "failed_files"} :
                      objects' = [objects EXCEPT
                          !.heap[x[f]].items = Append(@, X_PDF),
                          !.touched = Append(@, r)]
                \/ \E f \in {"processed_folders", "skipped_folders"} :
                      objects' = [objects EXCEPT
                          !.heap[x[f]].items = SetDefaultAppend(@, DIR_A, X_PDF),
                          !.touched = Append(@, r)]
                \/ objects' = [objects EXCEPT
                          !.results[r].success = TRUE,
                          !.results[r].processing_time = 1,
                          !.touched = Append(@, r)]
    /\ UNCHANGED notObjects

NextObjects ==
    \/ Construct
    \/ Mutate

SpecObjects == InitObjects /\ [][NextObjects]_vars

(***************************************************************************)
(* Claims.                                                                 *)
(***************************************************************************)
\* discovery failed in this run: the input root is missing or holds no
\* supported file
DiscoveryFails == discover_processing_folders(importsExists, tree).raised # None

\* C1: Orchestrator.run always returns a RunResult: whatever the input and
\* whatever fails (input root missing, no supported files, a failing
\* transformation, an output I/O failure, a report-write failure), a run that
\* has ended has returned and raised nothing.
C1_RunAlwaysReturns == pc = "done" => outcome = "returned" /\ raised = None

\* C2: when discovery fails, run returns a RunResult with success = false and
\* errorMessage set, and no folder is processed: no Transformation Port call is
\* made and processedByFolder, skippedByFolder and outputArtifacts are empty.
C2_DiscoveryFailureIsReported ==
    (pc = "done" /\ DiscoveryFails /\ raised # "OSError") =>
        /\ outcome = "returned"
        /\ result.success = FALSE
        /\ result.error_message # None
        /\ calls = <<>>
        /\ result.processed_folders = <<>>
        /\ result.skipped_folders = <<>>
        /\ result.output_files = <<>>

\* the groups the loop has gone past
Passed == {k \in 1..Len(processing_map) : k < gi}

Skipped(folder_name) == folder_name \in DictKeys(result.skipped_folders)

FaultsOf(folder_name) == {f.kind : f \in {x \in ioFaults : x.folder = folder_name}}

\* the names processed_folders records for a folder
ProcessedOf(folder_name) ==
    IF folder_name \in DictKeys(result.processed_folders)
    THEN DictGet(result.processed_folders, folder_name)
    ELSE <<>>

\* the names failed_files records for a folder
FailedOf(folder_name) ==
    {result.failed_files[i] : i \in {j \in 1..Len(result.failed_files) :
                                        failedIn[j] = folder_name}}

PortFailedOf(folder_name) == {f.file : f \in {x \in portFailed : x.folder = folder_name}}

\* the sections of the files of a folder the Port succeeded for, in group order
RECURSIVE SuccessfulSections(_, _)
SuccessfulSections(folder_name, files) ==
    IF files = <<>> THEN <<>>
    ELSE (IF Head(files) \in PortFailedOf(folder_name) THEN <<>>
          ELSE <<Blob(folder_name, Head(files)), Separator>>)
         \o SuccessfulSections(folder_name, Tail(files))

\* C3: partial-failure isolation.  A file the Transformation Port failed for is
\* recorded in failedFiles; every file of its folder is still attempted and
\* the loop still goes through every later folder; a folder that just went
\* through the loop with no output I/O fault has an artifact holding the header
\* and exactly the sections of the files the Port succeeded for, and if fewer
\* than all its files failed the run ends with success = true.
C3_PartialFailureIsolation ==
    /\ \A f \in portFailed :
          \E i \in 1..Len(result.failed_files) :
              result.failed_files[i] = f.file /\ failedIn[i] = f.folder
    /\ \A k \in Passed :
          LET g == processing_map[k]
          IN (~Skipped(g.key) /\ FaultsOf(g.key) \cap {"open", "header"} = {}) =>
                \A i \in 1..Len(g.value) :
                    [folder |-> g.key, file |-> g.value[i]] \in Range(calls)
    /\ (pc = "done" /\ portFailed # {}) => gi = Len(processing_map) + 1
    /\ \A k \in Passed :
          LET g == processing_map[k]
          IN (pc # "files" /\ k = gi - 1 /\ ~Skipped(g.key) /\ FaultsOf(g.key) = {}) =>
                /\ FsContent(exports, OutName(g.key))
                      = <<Header(g.key, Len(g.value))>> \o SuccessfulSections(g.key, g.value)
                /\ ProcessedOf(g.key)
                      = SelectSeq(g.value, LAMBDA n : n \notin PortFailedOf(g.key))
                /\ OutName(g.key) \in Range(result.output_files)
    /\ \A k \in Passed :
          LET g == processing_map[k]
          IN (pc = "done" /\ ~Skipped(g.key) /\ FaultsOf(g.key) = {}
              /\ Cardinality(PortFailedOf(g.key)) < Len(g.value)) => result.success

\* C3 witness: a folder of two files, the Port failed for the first and the
\* second was still processed; a later folder was processed as well and the
\* run has ended in success.
C3_Witness ==
    /\ pc = "done"
    /\ result.success
    /\ \E k \in Passed :
          LET g == processing_map[k]
          IN /\ Len(g.value) = 2
             /\ PortFailedOf(g.key) = {g.value[1]}
             /\ ProcessedOf(g.key) = <<g.value[2]>>
             /\ FaultsOf(g.key) = {}
             /\ k < Len(processing_map)
             /\ ProcessedOf(processing_map[k + 1].key) # <<>>

\* C4: re-run idempotence.  After a first run that returned with no failed
\* file, a second run on the unchanged tree and the output directory the first
\* left, skip-if-already-converted on, has every folder group the first run
\* converted (the root group included) in skippedByFolder and invokes the
\* Transformation Port zero times.
C4_RerunSkipsEverything ==
    (/\ phase = "rerun"
     /\ pc = "done"
     /\ SKIP_ALREADY_CONVERTED
     /\ prev.outcome = "returned"
     /\ prev.result.failed_files = <<>>) =>
        /\ \A folder_name \in DictKeys(prev.result.processed_folders) : Skipped(folder_name)
        /\ calls = <<>>

\* the name is sanitize(folderId), an underscore, any text, ".md"
BelongsTo(name, folder_name) ==
    LET prefix == sanitize_filename(folder_name) \o <<"_">>
    IN \E k \in Len(prefix)..(Len(name) - Len(MD)) :
          name = prefix \o SubSeq(name, Len(prefix) + 1, k) \o MD

ArtifactsOf(folder_name) == {e \in Range(exports) : BelongsTo(e.name, folder_name)}

\* a step that skips the group the loop is at
SkipStep == pc = "loop" /\ result'.skipped_folders # result.skipped_folders

\* what a step appends to output_files
Added == SubSeq(result'.output_files, Len(result.output_files) + 1, Len(result'.output_files))

MTimeOf(name) == (CHOOSE e \in Range(exports) : e.name = name).mtime

\* the groups whose artifact was written and closed
Closed == {k \in Passed : ~Skipped(processing_map[k].key)
                          /\ FaultsOf(processing_map[k].key) \cap {"open", "header", "close"} = {}}

SkippedGroups == DictKeys(result.skipped_folders)

\* no Transformation Port call was made for a file of a skipped folder
NoCallForSkipped == \A i \in 1..Len(calls) : ~Skipped(calls[i].folder)

\* C5 as stated: a skip step makes no Transformation Port call, sets
\* skippedByFolder[folderId] to the group's filenames in group order and appends
\* exactly one path to outputArtifacts, the newest existing artifact of the
\* folder; no Port call is ever made for a skipped folder, and outputArtifacts
\* holds one entry per folder group processed or skipped.
C5_SkipAppendsOneArtifact ==
    [][/\ SkipStep =>
           (/\ calls' = calls
            /\ DictGet(result'.skipped_folders, Group.key) = Group.value
            /\ \E e \in ArtifactsOf(Group.key) :
                  /\ \A o \in ArtifactsOf(Group.key) : o.mtime <= e.mtime
                  /\ result'.output_files = Append(result.output_files, e.name))
       /\ NoCallForSkipped'
       /\ (Len(result.output_files) = Cardinality(SkippedGroups) + Cardinality(Closed))'
      ]_vars

\* C5 amended: a skip step makes no Transformation Port call, sets
\* skippedByFolder[folderId] to the group's filenames in group order and appends
\* to outputArtifacts the path of every existing artifact of the folder (one or
\* more), newest first; no Port call is ever made for a skipped folder, and
\* outputArtifacts holds at least one entry per folder group skipped or
\* processed to the end.
C5_SkipAppendsAllArtifacts ==
    [][/\ SkipStep =>
           (/\ calls' = calls
            /\ DictGet(result'.skipped_folders, Group.key) = Group.value
            /\ SubSeq(result'.output_files, 1, Len(result.output_files)) = result.output_files
            /\ Len(Added) >= 1
            /\ Len(Added) = Cardinality(ArtifactsOf(Group.key))
            /\ Range(Added) = {e.name : e \in ArtifactsOf(Group.key)}
            /\ \A i \in 1..(Len(Added) - 1) : MTimeOf(Added[i]) >= MTimeOf(Added[i + 1]))
       /\ NoCallForSkipped'
       /\ (Len(result.output_files) >= Cardinality(SkippedGroups) + Cardinality(Closed))'
      ]_vars

\* C5 witness: a folder was skipped that has two artifacts, listed oldest
\* first, and both are in outputArtifacts, the newer one first.
C5_Witness ==
    /\ pc = "done"
    /\ Skipped(DIR_A)
    /\ Len(exports) >= 2
    /\ exports[1].name = A_TS_MD
    /\ exports[2].name = A_B_MD
    /\ exports[1].mtime < exports[2].mtime
    /\ Len(result.output_files) >= 2
    /\ \E i \in 1..(Len(result.output_files) - 1) :
          result.output_files[i] = A_B_MD /\ result.output_files[i + 1] = A_TS_MD

\* the text has the form %Y-%m-%d_%H-%M-%S
IsTimestamp(ts) ==
    /\ Len(ts) = 19
    /\ \A i \in 1..19 :
          IF i \in {5, 8, 14, 17} THEN ts[i] = "-"
          ELSE IF i = 11 THEN ts[i] = "_"
          ELSE ts[i] \in Digits

\* the name is <sanitize(folderId)>_<timestamp>.md
IsTimestamped(name, folder_name) ==
    LET prefix == sanitize_filename(folder_name) \o <<"_">>
    IN /\ Len(name) = Len(prefix) + 19 + Len(MD)
       /\ StartsWith(name, prefix)
       /\ EndsWith(name, MD)
       /\ IsTimestamp(SubSeq(name, Len(prefix) + 1, Len(prefix) + 19))

TwinComparable ==
    /\ phase = "twin"
    /\ pc = "done"
    /\ outcome = "returned"
    /\ prev.outcome = "returned"
    /\ twinFolder \in DictKeys(processing_map)
    /\ twinFolder \in DictKeys(prev.processing_map)
    /\ DictGet(processing_map, twinFolder) # DictGet(prev.processing_map, twinFolder)

\* C7: the skip decision is content-insensitive.  Of two runs from the same
\* output directory contents whose input trees differ in one file of one
\* folder, the folder is skipped in one iff it is skipped in the other, and a
\* folder skipped before the change gets no Transformation Port call after it.
C7_SkipIsContentInsensitive ==
    TwinComparable =>
        /\ twinFolder \in DictKeys(prev.result.skipped_folders) <=> Skipped(twinFolder)
        /\ twinFolder \in DictKeys(prev.result.skipped_folders) =>
              \A i \in 1..Len(calls) : calls[i].folder # twinFolder

\* C7 witness: a file was added to a folder the first run skipped, and the
\* second run skipped it again.
C7_Witness ==
    /\ TwinComparable
    /\ twinFolder \in DictKeys(prev.result.skipped_folders)
    /\ Skipped(twinFolder)
    /\ Len(DictGet(processing_map, twinFolder)) > Len(DictGet(prev.processing_map, twinFolder))

RECURSIVE DictValues(_)
DictValues(d) == IF d = <<>> THEN {} ELSE Range(Head(d).value) \cup DictValues(Tail(d))

\* C8: a filename appears in at most one of processedByFolder (any folder),
\* skippedByFolder (any folder) and failedFiles.
C8_FilenameInOneCollection ==
    \A name \in FileNames :
        Cardinality({c \in {"processed", "skipped", "failed"} :
            \/ c = "processed" /\ name \in DictValues(result.processed_folders)
            \/ c = "skipped" /\ name \in DictValues(result.skipped_folders)
            \/ c = "failed" /\ name \in Range(result.failed_files)}) <= 1

\* C9: at the end of a run, for every discovered folder group: if it was
\* processed (its artifact was opened and its header written), the names
\* recorded for it in processedByFolder and those recorded for it in
\* failedFiles are disjoint and together exactly the files discovered for it;
\* if it was skipped, skippedByFolder[folderId] is exactly its files.
C9_EveryFileAccountedFor ==
    pc = "done" =>
        \A k \in Passed :
            LET g == processing_map[k]
            IN /\ (~Skipped(g.key) /\ FaultsOf(g.key) \cap {"open", "header"} = {}) =>
                     /\ Range(ProcessedOf(g.key)) \cup FailedOf(g.key) = Range(g.value)
                     /\ Range(ProcessedOf(g.key)) \cap FailedOf(g.key) = {}
               /\ Skipped(g.key) =>
                     /\ DictGet(result.skipped_folders, g.key) = g.value
                     /\ ProcessedOf(g.key) = <<>>
                     /\ FailedOf(g.key) = {}

\* C9 witness: a run ended with one folder skipped and another processed, one
\* file of which is in processedByFolder and the other in failedFiles.
C9_Witness ==
    /\ pc = "done"
    /\ \E k \in Passed : Skipped(processing_map[k].key)
    /\ \E k \in Passed :
          LET g == processing_map[k]
          IN /\ ~Skipped(g.key)
             /\ Len(ProcessedOf(g.key)) = 1
             /\ Cardinality(FailedOf(g.key)) = 1

\* C10: in the RunResult run returns, success is true iff outputArtifacts is
\* non-empty.
C10_SuccessIffArtifacts ==
    outcome = "returned" => (result.success <=> result.output_files # <<>>)

\* C10 witness: run returned success = true with no artifact written by this
\* run: every group was skipped and the artifacts are those reused.
C10_Witness ==
    /\ outcome = "returned"
    /\ result.success
    /\ result.processed_folders = <<>>
    /\ result.output_files # <<>>

\* the output I/O faults of a folder's artifact: its open, a write to it, its close
OutputFaultKinds == {"open", "header", "blob", "separator", "close"}

\* the step that leaves the with block of a folder an output I/O fault hit
AbandonStep ==
    /\ pc \in {"loop", "files"}
    /\ gi' = gi + 1
    /\ \E x \in ioFaults' : x.folder = Group.key /\ x.kind \in OutputFaultKinds

\* C11: if opening the output file of a folder, or any write to it, fails with
\* an I/O error, the folder is abandoned: the step that leaves the folder
\* appends nothing to outputArtifacts, and the loop still goes through every
\* later folder group.
C11_IOFailureAbandonsFolder ==
    [][/\ AbandonStep => result'.output_files = result.output_files
       /\ (pc' = "done" /\ \E x \in ioFaults' : x.kind \in OutputFaultKinds) =>
              gi' = Len(processing_map') + 1
      ]_vars

\* C12: when a folder is abandoned because of an output I/O failure (open,
\* header write, section write, flush or close), none of its files is counted:
\* at the end of the run no filename of the folder is recorded for it in
\* processedByFolder or in failedFiles.
C12_AbandonedFolderCountsNoFile ==
    pc = "done" =>
        \A k \in Passed :
            LET g == processing_map[k]
            IN FaultsOf(g.key) \cap OutputFaultKinds # {} =>
                  /\ ProcessedOf(g.key) = <<>>
                  /\ FailedOf(g.key) = {}

\* the summary report could not be written
ReportFailed == \E x \in ioFaults : x.kind = "report"

\* C13: a failure to write the summary report is non-fatal: run still returns
\* the RunResult, success keeps the value computed from outputArtifacts and no
\* exception is raised past run.
C13_ReportFailureIsNonFatal ==
    (pc = "done" /\ ReportFailed) =>
        /\ outcome = "returned"
        /\ raised = None
        /\ result.success <=> result.output_files # <<>>

\* the Transformation Port was invoked for every file of the group
AllFilesCalled(g) ==
    \A i \in 1..Len(g.value) : [folder |-> g.key, file |-> g.value[i]] \in Range(calls)

\* C14: when skip-if-already-converted is off, no folder group is ever
\* skipped, whatever artifacts the output directory holds: skippedByFolder
\* stays empty, the Transformation Port is invoked for each file of every group
\* the loop went through whose artifact could be opened, and a run that got
\* through discovery and did not raise in the loop went through every group.
C14_NoSkipWhenDisabled ==
    ~SKIP_ALREADY_CONVERTED =>
        /\ result.skipped_folders = <<>>
        /\ \A k \in Passed :
              FaultsOf(processing_map[k].key) \cap {"open", "header"} = {} =>
                  AllFilesCalled(processing_map[k])
        /\ (pc = "done" /\ processing_map # <<>> /\ raised # "TypeError") =>
              gi = Len(processing_map) + 1

\* C14 witness: with the flag off, a run ended that converted again a folder
\* the ledger reports as already converted, next to another folder.
C14_Witness ==
    /\ ~SKIP_ALREADY_CONVERTED
    /\ pc = "done"
    /\ outcome = "returned"
    /\ Len(processing_map) >= 2
    /\ \E k \in Passed :
          /\ check_folder_already_converted(processing_map[k].key, exportsExists, exports0)
          /\ AllFilesCalled(processing_map[k])
          /\ ProcessedOf(processing_map[k].key) = processing_map[k].value

\* the name ends with one of the supported extensions
HasSupportedExtension(name) == \E ext \in SUPPORTED_FORMATS : EndsWith(name, ext)

\* the immediate subdirectories whose name does not start with '.'
VisibleSubdirs == {s \in Range(tree.subdirs) : Head(s.name) # "."}

\* a supported file lies in the input root or in a visible immediate subdirectory
SomeSupportedFile ==
    \/ \E n \in tree.rootEntries : HasSupportedExtension(n)
    \/ \E s \in VisibleSubdirs : \E n \in s.entries : HasSupportedExtension(n)

\* C15: discover fails with FileNotFoundError when the input root does not
\* exist, and with ValueError naming the supported formats exactly when neither
\* the root nor any non-hidden immediate subdirectory contains a supported
\* file; otherwise it returns a non-empty mapping.
C15_DiscoveryErrors ==
    pc = "discovered" =>
        /\ ~importsExists => raised = "FileNotFoundError"
        /\ importsExists =>
              IF SomeSupportedFile
              THEN outcome = "returned" /\ processing_map # <<>>
              ELSE /\ raised = "ValueError"
                   /\ discover_processing_folders(importsExists, tree).supported_exts
                         = Sorted(SUPPORTED_FORMATS)

\* C16: every group of the mapping discover returns is non-empty and holds
\* only files (not directories) with a supported extension, taken from the
\* input root itself (the root group) or from an immediate subdirectory whose
\* name does not start with '.', never from a deeper level.
C16_GroupsHoldSupportedFiles ==
    (pc = "discovered" /\ outcome = "returned") =>
        \A k \in 1..Len(processing_map) :
            LET g == processing_map[k]
            IN /\ g.value # <<>>
               /\ \A n \in Range(g.value) : HasSupportedExtension(n)
               /\ \/ g.key = ROOT /\ Range(g.value) \subseteq tree.rootEntries
                  \/ \E s \in VisibleSubdirs :
                        s.name = g.key /\ Range(g.value) \subseteq s.entries

\* C17: discover is deterministic.  Called twice on identical directory
\* contents, whatever order the filesystem lists the entries in, it returns the
\* same mapping, with the same order of groups and of files within each group
\* (or fails the same way).
C17_DiscoveryIsDeterministic ==
    (phase = "rerun" /\ pc = "discovered") =>
        /\ outcome = prev.outcome
        /\ processing_map = prev.processing_map

\* the artifact name the claim gives a folder group
ArtifactNameOf(folder_name) ==
    IF folder_name = ROOT THEN output_filename ELSE folder_name \o <<".", "m", "d">>

\* the pieces this run wrote for a folder: its header, its sections, separators
WrittenForFolder(piece, g) ==
    \/ piece = Header(g.key, Len(g.value))
    \/ piece.t = "blob" /\ piece.folder = g.key /\ piece.file \in Range(g.value)
    \/ piece = Separator

\* C18: for a folder group that is not skipped, the artifact is
\* outputDir/rootOutputName for the root group and outputDir/<folderId>.md
\* otherwise, and the file is truncated on open: while the folder is processed
\* and when the loop has just left it, the file starts with this run's header
\* and holds only this run's header and sections, none of its prior content.
C18_ArtifactPathAndTruncation ==
    /\ pc = "files" =>
          /\ out_path = ArtifactNameOf(Group.key)
          /\ out_path \in FsNames(exports)
          /\ Head(FsContent(exports, out_path)) = Header(Group.key, Len(Group.value))
          /\ \A piece \in Range(FsContent(exports, out_path)) : WrittenForFolder(piece, Group)
    /\ \A k \in Passed :
          LET g == processing_map[k]
          IN (pc # "files" /\ k = gi - 1 /\ ~Skipped(g.key)
              /\ FaultsOf(g.key) \cap {"open", "header"} = {}) =>
                /\ ArtifactNameOf(g.key) \in FsNames(exports)
                /\ Head(FsContent(exports, ArtifactNameOf(g.key))) = Header(g.key, Len(g.value))
                /\ \A piece \in Range(FsContent(exports, ArtifactNameOf(g.key))) :
                      WrittenForFolder(piece, g)
                /\ FaultsOf(g.key) = {} =>
                      ArtifactNameOf(g.key) = result.output_files[Len(result.output_files)]

\* C18 witness: the output directory held a_b.md before the run; folder a_b
\* was processed, not skipped, and a_b.md now holds the header and the section
\* of its file, and the root group was written to the root output name.
C18_Witness ==
    /\ pc = "done"
    /\ \E i \in 1..Len(exports0) :
          exports0[i].name = A_B_MD /\ exports0[i].content = <<OldContent>>
    /\ ~Skipped(DIR_A_B)
    /\ ProcessedOf(DIR_A_B) # <<>>
    /\ Len(FsContent(exports, A_B_MD)) >= 3
    /\ OldContent \notin Range(FsContent(exports, A_B_MD))
    /\ ProcessedOf(ROOT) # <<>>
    /\ output_filename \in FsNames(exports)
    /\ {A_B_MD, output_filename} \subseteq Range(result.output_files)

\* the report this run wrote: the entry written last
ReportsWritten == {e \in Range(exports) : e.mtime = clock /\ StartsWith(e.name, PROCESSING_SUMMARY)}

\* C19: the summary report a run writes is named processing_summary_<t>.md
\* where t is the unix timestamp of the run's start, not a later time.
C19_ReportNamedAfterStart ==
    (pc = "done" /\ outcome = "returned") =>
        \E e \in ReportsWritten : e.name = PROCESSING_SUMMARY \o IntToStr(start_time) \o MD

\* the lines of a report that open the section of a folder
SectionsOf(content, kind, folder_name) ==
    {i \in 1..Len(content) : content[i].t = kind /\ content[i].folder = folder_name}

\* the lines from index i on list exactly the given names, one item each
ListsFrom(content, i, names) ==
    /\ Len(content) >= i + Len(names) - 1
    /\ \A j \in 1..Len(names) : content[i + j - 1] = Item(names[j])

\* C20: the summary report holds, in this order: the run metadata, one section
\* per folder of processedByFolder listing its processed files, one section per
\* folder of skippedByFolder (already converted), a failed-files section iff
\* failedFiles is not empty, and last the list of the names of outputArtifacts.
C20_ReportSectionsInOrder ==
    (pc = "done" /\ outcome = "returned") =>
        \E e \in ReportsWritten :
            LET content == e.content
                failedAt == {i \in 1..Len(content) : content[i] = Line("## Failed files", 0)}
                outputAt == {i \in 1..Len(content) : content[i] = Line("## Output files", 0)}
            IN /\ content[1] = Line("# Processing Summary", 0)
               /\ \A folder_name \in DictKeys(result.processed_folders) :
                     \E i \in SectionsOf(content, "processed folder", folder_name) :
                         /\ ListsFrom(content, i + 1, ProcessedOf(folder_name))
                         /\ \A o \in outputAt \cup failedAt : i < o
                         /\ \A s \in DictKeys(result.skipped_folders) :
                               \A j \in SectionsOf(content, "skipped folder", s) : i < j
               /\ \A folder_name \in DictKeys(result.skipped_folders) :
                     \E i \in SectionsOf(content, "skipped folder", folder_name) :
                         \A o \in outputAt \cup failedAt : i < o
               /\ failedAt # {} <=> result.failed_files # <<>>
               /\ \A i \in failedAt :
                     /\ ListsFrom(content, i + 1, result.failed_files)
                     /\ \A o \in outputAt : i < o
               /\ \E o \in outputAt :
                     /\ ListsFrom(content, o + 1, result.output_files)
                     /\ Len(content) = o + Len(result.output_files)

\* C21: existingArtifacts(folderId, outputDir) returns every artifact matching
\* the folder's pattern, each once, ordered by last-modified time descending,
\* and the empty sequence when outputDir does not exist; it is non-empty iff
\* alreadyConverted(folderId, outputDir) is true.
C21_ExistingArtifactsNewestFirst ==
    "existing" \in ledger.asked =>
        /\ ~exportsExists => ledger.existing = <<>>
        /\ Range(ledger.existing) = ArtifactsOf(ledger.folder)
        /\ Len(ledger.existing) = Cardinality(ArtifactsOf(ledger.folder))
        /\ \A i \in 1..(Len(ledger.existing) - 1) :
              ledger.existing[i].mtime >= ledger.existing[i + 1].mtime
        /\ "converted" \in ledger.asked => (ledger.existing # <<>> <=> ledger.answer)

\* C21 witness: the output directory lists two artifacts of the folder oldest
\* first, and existingArtifacts returned both, the newer one first.
C21_Witness ==
    /\ ledger.asked = {"converted", "existing"}
    /\ ledger.answer
    /\ Len(ledger.existing) = 2
    /\ ledger.existing[1].mtime > ledger.existing[2].mtime
    /\ \E i, j \in 1..Len(exports) :
          i < j /\ exports[i] = ledger.existing[2] /\ exports[j] = ledger.existing[1]

\* C22: sanitization is idempotent: sanitize_filename(sanitize_filename(x)) =
\* sanitize_filename(x) for every string x, names with dots, path separators,
\* only special characters and the empty string included.
C22_SanitizeIsIdempotent ==
    Len(sanitizing.results) = 2 => sanitizing.results[2] = sanitizing.results[1]

\* C22 witness: a name with a path separator and a special character, which
\* sanitizing changed, was sanitized twice.
C22_Witness ==
    /\ Len(sanitizing.results) = 2
    /\ {"/", "!"} \subseteq Range(sanitizing.filename)
    /\ sanitizing.results[1] # sanitizing.filename
    /\ sanitizing.results[1] # UNTITLED

RECURSIVE SpecialsToUnderscores(_)
SpecialsToUnderscores(s) ==
    IF s = <<>> THEN <<>>
    ELSE <<IF Head(s) = "!" THEN "_" ELSE Head(s)>> \o SpecialsToUnderscores(Tail(s))

\* C24: sanitize_filename drops the extension, turns each run of whitespace or
\* underscores of the input into one underscore, and replaces every other
\* special character by one underscore each, keeping those underscores: the
\* inputs of test_sanitize_filename give the results the test expects, and a
\* name of letters and special characters keeps one underscore per special
\* character.
C24_SanitizeKeepsReplacementUnderscores ==
    sanitizing.results # <<>> =>
        /\ \A c \in test_cases :
              sanitizing.filename = c.input_name => sanitizing.results[1] = c.expected
        /\ (sanitizing.filename # <<>> /\ Range(sanitizing.filename) \subseteq {"a", "!"}) =>
              sanitizing.results[1] = SpecialsToUnderscores(sanitizing.filename)

\* the folders line 84 decided to skip, and those it decided to process
DecidedSkipped == {d.folder : d \in {x \in Range(decided) : x.skip}}
DecidedProcessed == {d.folder : d \in {x \in Range(decided) : ~x.skip}}

\* the number of Transformation Port invocations for a file of a folder
CallsFor(folder_name, file) ==
    Cardinality({i \in 1..Len(calls) : calls[i] = [folder |-> folder_name, file |-> file]})

\* the Port was invoked exactly once for each file of the group
EachFileCalledOnce(g) == \A i \in 1..Len(g.value) : CallsFor(g.key, g.value[i]) = 1

\* the order of the skip decision and the Port calls, and at most one call
\* per file
DecisionBeforeCalls ==
    /\ \A d \in Range(decided) : d.ledger = SKIP_ALREADY_CONVERTED
    /\ \A i \in 1..Len(calls) :
          /\ calls[i].folder \in DecidedProcessed
          /\ calls[i].folder \notin DecidedSkipped
          /\ \E k \in 1..Len(processing_map) :
                /\ processing_map[k].key = calls[i].folder
                /\ calls[i].file \in Range(processing_map[k].value)
    /\ \A i, j \in 1..Len(calls) : calls[i] = calls[j] => i = j

\* C25 as stated: the skip decision for a folder (the Ledger check, when
\* skip-if-already-converted is on) comes before any Transformation Port
\* invocation for that folder; the Port is invoked at most once per
\* discovered file, exactly once for each file of a non-skipped folder the
\* loop went through whose output file opened, and never for a file of a
\* skipped folder.
C25_PortOncePerFileOfOpenedFolder ==
    /\ DecisionBeforeCalls
    /\ \A k \in Passed :
          (processing_map[k].key \in DecidedProcessed
           /\ "open" \notin FaultsOf(processing_map[k].key)) =>
              EachFileCalledOnce(processing_map[k])

\* C25 amended: the same, the Port being invoked exactly once for each file
\* of a non-skipped folder the loop went through whose output file opened
\* and whose header was written.
C25_PortOncePerFileOfStartedFolder ==
    /\ DecisionBeforeCalls
    /\ \A k \in Passed :
          (processing_map[k].key \in DecidedProcessed
           /\ FaultsOf(processing_map[k].key) \cap {"open", "header"} = {}) =>
              EachFileCalledOnce(processing_map[k])

\* C25 witness: with skipping on, a run ended that skipped one folder after
\* asking the ledger and processed another of two files, the Port failing
\* for the first of them and being invoked once for each.
C25_Witness ==
    /\ pc = "done"
    /\ SKIP_ALREADY_CONVERTED
    /\ DecidedSkipped # {}
    /\ \E k \in Passed :
          /\ processing_map[k].key \in DecidedProcessed
          /\ Len(processing_map[k].value) = 2
          /\ processing_map[k].value[1] \in PortFailedOf(processing_map[k].key)
          /\ EachFileCalledOnce(processing_map[k])
          /\ Len(calls) = 2

\* the lists and mappings a ConversionResult object holds
ContainersOf(x) ==
    {x.output_files, x.processed_folders, x.skipped_folders, x.failed_files}

\* what the fields and properties of the object read
InitialState(x) ==
    /\ x.success = FALSE
    /\ objects.heap[x.output_files].items = <<>>
    /\ output_file(objects.heap[x.output_files].items) = NoneName
    /\ processed_files(objects.heap[x.processed_folders].items) = <<>>
    /\ objects.heap[x.failed_files].items = <<>>
    /\ x.total_pages = 0
    /\ x.total_images = 0
    /\ x.processing_time = 0
    /\ x.error_message = None

\* C26: a freshly constructed ConversionResult has success = false,
\* output_file = None (no output files), processed_files = [], failed_files =
\* [], total_pages = 0, total_images = 0, processing_time = 0.0 and
\* error_message = None, and two results share no list or mapping: whatever
\* is done to the other results, a result that was not mutated itself still
\* reads its initial state.
C26_FreshResultsAreIndependent ==
    /\ \A r \in 1..Len(objects.results) :
          r \notin Range(objects.touched) => InitialState(objects.results[r])
    /\ \A r1, r2 \in 1..Len(objects.results) :
          r1 # r2 => ContainersOf(objects.results[r1]) \cap ContainersOf(objects.results[r2]) = {}

\* C26 witness: of two results, the first got an output file and a processed
\* file, and the second, never mutated, reads its initial state.
C26_Witness ==
    /\ Len(objects.results) = 2
    /\ Range(objects.touched) = {1}
    /\ output_file(objects.heap[objects.results[1].output_files].items) = X_PDF
    /\ processed_files(objects.heap[objects.results[1].processed_folders].items) = <<X_PDF>>
    /\ InitialState(objects.results[2])

\* the sections of the files of a folder recorded as processed, in group order
RECURSIVE ProcessedSections(_, _)
ProcessedSections(folder_name, files) ==
    IF files = <<>> THEN <<>>
    ELSE (IF Head(files) \in Range(ProcessedOf(folder_name))
          THEN <<Blob(folder_name, Head(files)), Separator>>
          ELSE <<>>)
         \o ProcessedSections(folder_name, Tail(files))

\* C27: incremental writing.  While a folder is processed, after each
\* Transformation Port call has been handled the artifact holds the header
\* followed by, for each file transformed successfully so far in group order,
\* its markdown text immediately followed by the separator; the name of each
\* of these files is in processedByFolder[folderId] before the next
\* transformation begins, and a file recorded as failed contributes nothing
\* to the artifact.
C27_IncrementalWriting ==
    pc = "files" =>
        LET handled == SubSeq(Group.value, 1, fi - 1)
            content == FsContent(exports, out_path)
        IN /\ content = <<Header(Group.key, Len(Group.value))>>
                        \o ProcessedSections(Group.key, handled)
           /\ ProcessedOf(Group.key)
                 = SelectSeq(handled, LAMBDA n : n \notin FailedOf(Group.key))
           /\ \A n \in FailedOf(Group.key) : Blob(Group.key, n) \notin Range(content)

\* C28: within one run, an artifact or report written for one folder group
\* never makes a different folder group look already converted: a group is
\* skipped only when the output directory held an artifact of that folder
\* before the run wrote anything.
C28_SkipOnlyForOwnArtifact ==
    [][SkipStep => check_folder_already_converted(Group.key, TRUE, exports0)]_vars

\* the folders whose artifact this run opened for writing
Writers ==
    {folder_name \in DecidedProcessed :
        OutName(folder_name) # NoneName /\ "open" \notin FaultsOf(folder_name)}

\* C29: within one run no two folder groups write to the same output path,
\* and outputArtifacts never holds the same path twice, whatever the root
\* output name and the folder names are.
C29_DistinctOutputPaths ==
    /\ \A f1, f2 \in Writers : f1 # f2 => OutName(f1) # OutName(f2)
    /\ \A i, j \in 1..Len(result.output_files) :
          result.output_files[i] = result.output_files[j] => i = j

\* C30: whenever the input root directly contains at least one supported
\* file, the mapping discovery returns holds under the root sentinel id
\* '_root' exactly those root-level files, whatever the names of the
\* subdirectories are, a subdirectory named '_root' included.
C30_RootFilesKeptUnderSentinel ==
    (pc = "discovered" /\ tree.is_dir /\ SupportedIn(tree.rootEntries) # {}) =>
        /\ raised = None
        /\ ROOT \in DictKeys(processing_map)
        /\ Range(DictGet(processing_map, ROOT)) = SupportedIn(tree.rootEntries)

====
